---- MODULE Spec2Model ----
(***************************************************************************)
(* Model of the EmsnDis C++ federate wrapper (MO-RISE/emsn-dis, cpp).       *)
(*                                                                         *)
(* Two builds of class EmsnDis exist in the sources:                       *)
(*   "stub"   - emsndis.h (first half) + the stub emsndis.cpp: three int   *)
(*              fields and three methods that print a line to std::cout;   *)
(*   "pybind" - the header with a py::scoped_interpreter guard and a       *)
(*              py::object dis, and the emsndis.cpp whose methods forward   *)
(*              to the Python class emsndis.EmsnDis.                        *)
(* The Python class is not part of the C++ sources; its behaviour          *)
(* (Py_* operators) follows the session design document.                   *)
(*                                                                         *)
(* Two kinds of callers: the sample main() with its five-iteration loop,   *)
(* and a library client that calls the public API in any order and         *)
(* catches what is thrown.                                                 *)
(***************************************************************************)
EXTENDS Integers, Sequences, FiniteSets

\* ---------------------------------------------------------------- bounds
NumObjs == 2        \* EmsnDis objects a client may hold
MaxCalls == 6       \* API calls a library client makes in one run

\* ------------------------------------------------------- program constants
NumTicks == 5       \* for (int i = 0; i < 5; i++)

Obj == 1..NumObjs

\* identity triples (siteId, applicationId, exerciseId) a caller supplies:
\* main()'s 1,1,1 and the README's 2,1,1
Identities == { <<1, 1, 1>>, <<2, 1, 1>> }

NoIdentity == <<0, 0, 0>>

\* dis_entity / text values handed to send_state_pdu
ShipEntity == "generic_ship_container_class_small"
HiReto == "Hi Reto"
EntityArgs == { ShipEntity, "bogus_entity" }
TextArgs == { HiReto }

\* entity types the delegate's code table knows
KnownEntityTypes == { ShipEntity }

Faults == { "none", "send" }

VARIABLES
  build,    \* "stub" | "pybind": which emsndis.cpp is linked
  mode,     \* "main" | "api": who drives the objects
  interp,   \* Py_IsInitialized(): the process-wide embedded interpreter
  life,     \* per object: "none" | "ctor" | "live" | "dtor" | "dead"
  guard,    \* per object: its scoped_interpreter member is initialised
  dis,      \* per object: its py::object dis holds a reference
  fields,   \* per object: stub's public siteId, applicationId, exerciseId
  args,     \* per object: the triple its constructor was called with
  sess,     \* per object: session lifecycle "Unopened" | "Open" | "Closed"
  pyId,     \* per object: identity held by the Python delegate
  out,      \* per object: PDUs emitted so far, [kind, id]
  last,     \* per object: the most recent call and its outcome
  prev,     \* per object: result of the call before the most recent one
  busy,     \* object whose constructor/destructor is in progress, 0 if none
  ncalls,   \* API calls made so far by the library client
  drv       \* main(): [pc, i]

vars == << build, mode, interp, life, guard, dis, fields, args, sess, pyId,
           out, last, prev, busy, ncalls, drv >>

\* what the caller of one operation observes: the operation, the lifecycle
\* state it was issued in, what it returned or threw, how many PDUs it put
\* on the wire, whether the transport failed under it, the entity type given
NoCall == [op |-> "none", pre |-> "Unopened", res |-> "ok", emitted |-> 0,
           failed |-> FALSE, entity |-> ""]

Call(op, pre, res, emitted, failed, entity) ==
  [op |-> op, pre |-> pre, res |-> res, emitted |-> emitted,
   failed |-> failed, entity |-> entity]

\* ------------------------------------------------ the Python delegate
\* emsndis.EmsnDis.__init__: sets up the multicast transport (bind/join)
Py_init(fault) ==
  IF fault = "setup" THEN [res |-> "NetworkError", hit |-> TRUE]
  ELSE [res |-> "ok", hit |-> FALSE]

\* emsndis.EmsnDis.send_start_pdu: Unopened -> Open, Start PDU best-effort
Py_send_start_pdu(s, fault) ==
  IF s # "Unopened"
    THEN [st |-> s, res |-> "InvalidStateError", pdus |-> << >>, hit |-> FALSE]
  ELSE IF fault = "send"
    THEN [st |-> "Open", res |-> "NetworkError", pdus |-> << >>, hit |-> TRUE]
  ELSE [st |-> "Open", res |-> "ok", pdus |-> << "Start" >>, hit |-> FALSE]

\* emsndis.EmsnDis.send_entity_state_pdu: valid only in Open
Py_send_entity_state_pdu(s, entityType, fault) ==
  IF s # "Open"
    THEN [st |-> s, res |-> "InvalidStateError", pdus |-> << >>, hit |-> FALSE]
  ELSE IF entityType \notin KnownEntityTypes
    THEN [st |-> s, res |-> "EncodingError", pdus |-> << >>, hit |-> FALSE]
  ELSE IF fault = "send"
    THEN [st |-> s, res |-> "NetworkError", pdus |-> << >>, hit |-> TRUE]
  ELSE [st |-> s, res |-> "ok", pdus |-> << "State" >>, hit |-> FALSE]

\* emsndis.EmsnDis.send_stop_pdu: Open -> Closed, idempotent when Closed
Py_send_stop_pdu(s, fault) ==
  IF s = "Closed"
    THEN [st |-> s, res |-> "ok", pdus |-> << >>, hit |-> FALSE]
  ELSE IF s = "Unopened"
    THEN [st |-> s, res |-> "InvalidStateError", pdus |-> << >>, hit |-> FALSE]
  ELSE [st |-> "Closed", res |-> "ok",
        pdus |-> IF fault = "send" THEN << >> ELSE << "Stop" >>,
        hit |-> (fault = "send")]

\* ------------------------------------------------ helpers
Stamp(kinds, id) == [k \in 1..Len(kinds) |-> [kind |-> kinds[k], id |-> id]]

Kinds(o) == [k \in 1..Len(out[o]) |-> out[o][k].kind]

Init ==
  /\ build \in { "stub", "pybind" }
  /\ mode \in { "main", "api" }
  /\ (mode = "main" => build = "pybind")
  /\ interp = FALSE
  /\ life = [o \in Obj |-> "none"]
  /\ guard = [o \in Obj |-> FALSE]
  /\ dis = [o \in Obj |-> FALSE]
  /\ fields = [o \in Obj |-> NoIdentity]
  /\ args = [o \in Obj |-> NoIdentity]
  /\ sess = [o \in Obj |-> "Unopened"]
  /\ pyId = [o \in Obj |-> NoIdentity]
  /\ out = [o \in Obj |-> << >>]
  /\ last = [o \in Obj |-> NoCall]
  /\ prev = [o \in Obj |-> "none"]
  /\ busy = 0
  /\ ncalls = 0
  /\ drv = [pc |-> "ctor", i |-> 0]

Record(o, c) ==
  /\ last' = [last EXCEPT ![o] = c]
  /\ prev' = [prev EXCEPT ![o] = IF last[o].op = "none" THEN "none" ELSE last[o].res]

\* ------------------------------------------------ C++ glue, pybind build
\* dis = EmsnDis(siteId, applicationId, exerciseId): the positional arguments
\* the constructor hands to the Python class
DelegateArgsSwapped(siteId, applicationId, exerciseId) ==
  << applicationId, siteId, exerciseId >>

DelegateArgs(siteId, applicationId, exerciseId) ==
  << siteId, applicationId, exerciseId >>

\* dis.attr("send_entity_state_pdu")(..., dis_entity, text): the 14th
\* positional argument is the entity type
EntityTypeArgSwapped(dis_entity, text) == text

EntityTypeArg(dis_entity, text) == dis_entity

\* the methods hold no try/catch: whatever the delegate raises leaves the
\* method as a C++ exception (py::error_already_set)
Swallow(res) == "ok"

Rethrow(res) == res

\* members are destroyed in reverse order of declaration (guard, then dis)
DestroyOrderDeclared == << "guard", "dis" >>

DestroyOrder == << "dis", "guard" >>

DestroyMember(m, o) ==
  IF m = "dis"
    THEN /\ dis' = [dis EXCEPT ![o] = FALSE]
         /\ UNCHANGED << guard, interp >>
    ELSE /\ guard' = [guard EXCEPT ![o] = FALSE]
         /\ interp' = FALSE
         /\ UNCHANGED dis

\* member initialisation: py::scoped_interpreter guard{}, then a null dis.
\* initialize_interpreter refuses to start a second interpreter.
P_ctor_guard(o, a) ==
  /\ busy = 0 /\ life[o] = "none"
  /\ IF interp
       THEN /\ Record(o, Call("ctor", sess[o], "RuntimeError", 0, FALSE, ""))
            /\ UNCHANGED << interp, life, guard, busy, args >>
       ELSE /\ interp' = TRUE
            /\ guard' = [guard EXCEPT ![o] = TRUE]
            /\ life' = [life EXCEPT ![o] = "ctor"]
            /\ args' = [args EXCEPT ![o] = a]
            /\ busy' = o
            /\ Record(o, Call("ctor", sess[o], "running", 0, FALSE, ""))
  /\ UNCHANGED << dis, fields, sess, pyId, out >>

\* constructor body: imports, then dis = EmsnDis(...). A Python exception
\* unwinds the already-built members.
P_ctor_body(o, fault) ==
  /\ busy = o /\ life[o] = "ctor"
  /\ busy' = 0
  /\ LET r == Py_init(fault) IN
     IF r.res # "ok"
       THEN /\ guard' = [guard EXCEPT ![o] = FALSE]
            /\ interp' = FALSE
            /\ life' = [life EXCEPT ![o] = "none"]
            /\ last' = [last EXCEPT ![o] = Call("ctor", sess[o], r.res, 0, r.hit, "")]
            /\ UNCHANGED << dis, pyId >>
       ELSE /\ dis' = [dis EXCEPT ![o] = TRUE]
            /\ pyId' = [pyId EXCEPT ![o] =
                          DelegateArgs(args[o][1], args[o][2], args[o][3])]
            /\ life' = [life EXCEPT ![o] = "live"]
            /\ last' = [last EXCEPT ![o] = Call("ctor", sess[o], "ok", 0, FALSE, "")]
            /\ UNCHANGED << guard, interp >>
  /\ UNCHANGED << fields, args, sess, out, prev >>

Delegated(o, op, r, entity) ==
  /\ sess' = [sess EXCEPT ![o] = r.st]
  /\ out' = [out EXCEPT ![o] = @ \o Stamp(r.pdus, pyId[o])]
  /\ Record(o, Call(op, sess[o], Rethrow(r.res), Len(r.pdus), r.hit, entity))
  /\ UNCHANGED << interp, life, guard, dis, fields, args, pyId, busy >>

P_send_start_pdu(o, fault) ==
  /\ busy = 0 /\ life[o] = "live"
  /\ Delegated(o, "start", Py_send_start_pdu(sess[o], fault), "")

P_send_state_pdu(o, dis_entity, text, fault) ==
  /\ busy = 0 /\ life[o] = "live"
  /\ Delegated(o, "state",
               Py_send_entity_state_pdu(sess[o],
                                        EntityTypeArg(dis_entity, text), fault),
               dis_entity)

P_send_stop_pdu(o, fault) ==
  /\ busy = 0 /\ life[o] = "live"
  /\ Delegated(o, "stop", Py_send_stop_pdu(sess[o], fault), "")

\* implicit destructor, first and second member
P_dtor_begin(o) ==
  /\ busy = 0 /\ life[o] = "live"
  /\ busy' = o
  /\ life' = [life EXCEPT ![o] = "dtor"]
  /\ DestroyMember(DestroyOrder[1], o)
  /\ UNCHANGED << fields, args, sess, pyId, out, last, prev >>

P_dtor_end(o) ==
  /\ busy = o /\ life[o] = "dtor"
  /\ busy' = 0
  /\ life' = [life EXCEPT ![o] = "dead"]
  /\ DestroyMember(DestroyOrder[2], o)
  /\ UNCHANGED << fields, args, sess, pyId, out, last, prev >>

\* ------------------------------------------------ C++ stub build
S_ctor(o, i_siteId, i_applicationId, i_exerciseId) ==
  /\ life[o] = "none"
  /\ fields' = [fields EXCEPT ![o] = << i_siteId, i_applicationId, i_exerciseId >>]
  /\ args' = [args EXCEPT ![o] = << i_siteId, i_applicationId, i_exerciseId >>]
  /\ life' = [life EXCEPT ![o] = "live"]
  /\ Record(o, Call("ctor", sess[o], "ok", 0, FALSE, ""))
  /\ UNCHANGED << interp, guard, dis, sess, pyId, out, busy >>

\* each method prints its line, whatever was called before; sess follows the
\* design's lifecycle for the calls made so far
Printed(o, op, kind, next) ==
  /\ life[o] = "live"
  /\ out' = [out EXCEPT ![o] = Append(@, [kind |-> kind, id |-> NoIdentity])]
  /\ sess' = [sess EXCEPT ![o] = next]
  /\ Record(o, Call(op, sess[o], "ok", 1, FALSE, ""))
  /\ UNCHANGED << interp, life, guard, dis, fields, args, pyId, busy >>

S_send_start_pdu(o) ==
  Printed(o, "start", "Start", Py_send_start_pdu(sess[o], "none").st)

S_send_state_pdu(o) ==
  Printed(o, "state", "State", Py_send_entity_state_pdu(sess[o], ShipEntity, "none").st)

S_send_stop_pdu(o) ==
  Printed(o, "stop", "Stop", Py_send_stop_pdu(sess[o], "none").st)

S_dtor(o) ==
  /\ life[o] = "live"
  /\ life' = [life EXCEPT ![o] = "dead"]
  /\ UNCHANGED << interp, guard, dis, fields, args, sess, pyId, out, last, prev, busy >>

\* ------------------------------------------------ a library client
Client(b) ==
  /\ mode = "api" /\ build = b
  /\ ncalls < MaxCalls
  /\ ncalls' = ncalls + 1
  /\ UNCHANGED << build, mode, drv >>

Continue ==
  /\ mode = "api" /\ build = "pybind"
  /\ UNCHANGED << build, mode, drv, ncalls >>

StubConstruct ==
  \E o \in Obj, a \in Identities : Client("stub") /\ S_ctor(o, a[1], a[2], a[3])

StubStart == \E o \in Obj : Client("stub") /\ S_send_start_pdu(o)

StubState == \E o \in Obj : Client("stub") /\ S_send_state_pdu(o)

StubStop == \E o \in Obj : Client("stub") /\ S_send_stop_pdu(o)

StubDestroy == \E o \in Obj : Client("stub") /\ S_dtor(o)

Construct ==
  \E o \in Obj, a \in Identities : Client("pybind") /\ P_ctor_guard(o, a)

ConstructBody ==
  \E o \in Obj, f \in { "none", "setup" } : Continue /\ P_ctor_body(o, f)

Start ==
  \E o \in Obj, f \in Faults : Client("pybind") /\ P_send_start_pdu(o, f)

State ==
  \E o \in Obj, e \in EntityArgs, t \in TextArgs, f \in Faults :
    Client("pybind") /\ P_send_state_pdu(o, e, t, f)

Stop ==
  \E o \in Obj, f \in Faults : Client("pybind") /\ P_send_stop_pdu(o, f)

Destroy == \E o \in Obj : Client("pybind") /\ P_dtor_begin(o)

DestroyEnd == \E o \in Obj : Continue /\ P_dtor_end(o)

\* ------------------------------------------------ the sample main()
LoopCondOffByOne(i) == i <= NumTicks

LoopCond(i) == i < NumTicks

\* nothing in main() catches: an exception ends the process (std::terminate)
Step(pc, next) ==
  /\ mode = "main" /\ drv.pc = pc
  /\ drv' = [drv EXCEPT !.pc = IF last'[1].res = "ok" THEN next ELSE "terminated"]
  /\ UNCHANGED << build, mode, ncalls >>

MainConstruct ==
  /\ mode = "main" /\ drv.pc = "ctor"
  /\ P_ctor_guard(1, << 1, 1, 1 >>)
  /\ drv' = [drv EXCEPT !.pc = "ctor_body"]
  /\ UNCHANGED << build, mode, ncalls >>

MainConstructBody ==
  \E f \in { "none", "setup" } : P_ctor_body(1, f) /\ Step("ctor_body", "start")

MainStart ==
  \E f \in Faults : P_send_start_pdu(1, f) /\ Step("start", "loop")

MainTick ==
  /\ mode = "main" /\ drv.pc = "loop" /\ LoopCond(drv.i)
  /\ \E f \in Faults : P_send_state_pdu(1, ShipEntity, HiReto, f)
  /\ drv' = IF last'[1].res = "ok" THEN [drv EXCEPT !.i = @ + 1]
            ELSE [drv EXCEPT !.pc = "terminated"]
  /\ UNCHANGED << build, mode, ncalls >>

MainLoopExit ==
  /\ mode = "main" /\ drv.pc = "loop" /\ ~LoopCond(drv.i)
  /\ drv' = [drv EXCEPT !.pc = "stop"]
  /\ UNCHANGED << build, mode, ncalls, interp, life, guard, dis, fields, args,
                  sess, pyId, out, last, prev, busy >>

MainStop ==
  \E f \in Faults : P_send_stop_pdu(1, f) /\ Step("stop", "ret")

MainReturn ==
  /\ mode = "main" /\ drv.pc = "ret"
  /\ P_dtor_begin(1)
  /\ drv' = [drv EXCEPT !.pc = "ret_guard"]
  /\ UNCHANGED << build, mode, ncalls >>

MainReturnEnd ==
  /\ mode = "main" /\ drv.pc = "ret_guard"
  /\ P_dtor_end(1)
  /\ drv' = [drv EXCEPT !.pc = "done"]
  /\ UNCHANGED << build, mode, ncalls >>

Next ==
  \/ StubConstruct \/ StubStart \/ StubState \/ StubStop \/ StubDestroy
  \/ Construct \/ ConstructBody \/ Start \/ State \/ Stop
  \/ Destroy \/ DestroyEnd
  \/ MainConstruct \/ MainConstructBody \/ MainStart \/ MainTick
  \/ MainLoopExit \/ MainStop \/ MainReturn \/ MainReturnEnd

Spec == Init /\ [][Next]_vars

\* ================================================================ claims
Expected(stopSent) ==
  << "Start" >> \o [k \in 1..NumTicks |-> "State"]
                \o (IF stopSent THEN << "Stop" >> ELSE << >>)

IsPrefix(s, t) == Len(s) <= Len(t) /\ \A k \in 1..Len(s) : s[k] = t[k]

CountKind(o, kind) == Cardinality({ k \in 1..Len(out[o]) : out[o][k].kind = kind })

\* C1: a send_state_pdu issued while the session is Unopened or Closed fails
\* with InvalidStateError and emits no Entity State PDU; a tick is accepted
\* only while the session is Open.
C1_TickOnlyWhenOpen ==
  \A o \in Obj :
    (last[o].op = "state" /\ last[o].pre # "Open")
      => (last[o].res = "InvalidStateError" /\ last[o].emitted = 0)

\* C2: a second send_stop_pdu on an already Closed session produces no error
\* and no additional Stop PDU; a session emits at most one Stop PDU.
C2_CloseIdempotent ==
  \A o \in Obj :
    /\ (last[o].op = "stop" /\ last[o].pre = "Closed")
         => (last[o].res = "ok" /\ last[o].emitted = 0)
    /\ CountKind(o, "Stop") <= 1

\* C3: main(), having driven its session through send_start_pdu, NumTicks
\* send_state_pdu calls and send_stop_pdu, has emitted exactly one Start PDU,
\* then NumTicks Entity State PDUs, then one Stop PDU (the Stop being absent
\* only when the transport's own send of it failed, which close does not
\* report); at every earlier point of main() the PDUs emitted so far are a
\* prefix of that sequence.
C3_MainEmitsStartTicksStop ==
  mode = "main" =>
    /\ IsPrefix(Kinds(1), Expected(TRUE))
    /\ drv.pc = "loop" => Kinds(1) = SubSeq(Expected(FALSE), 1, 1 + drv.i)
    /\ drv.pc \in { "ret", "ret_guard", "done" }
         => Kinds(1) = Expected(~last[1].failed)

C3_Witness ==
  /\ mode = "main" /\ drv.pc = "done"
  /\ Kinds(1) = Expected(TRUE)
  /\ Len(out[1]) = NumTicks + 2

C5_SendFailureNeverAborts ==
  \A o \in Obj :
    (last[o].op = "state" /\ last[o].failed)
      => /\ last[o].res = "NetworkError"
         /\ sess[o] = "Open"
         /\ mode = "main" => drv.pc # "terminated"

\* C6: when transport setup fails while the session is being constructed,
\* no session object exists afterwards, the session is Unopened and no PDU
\* has been emitted; when the send of the Start PDU fails, the caller gets
\* the NetworkError and the session is Open all the same.
C6_OpenFailure ==
  \A o \in Obj :
    /\ (last[o].op = "ctor" /\ last[o].failed)
         => /\ last[o].res = "NetworkError"
            /\ life[o] = "none" /\ ~guard[o] /\ ~dis[o]
            /\ sess[o] = "Unopened" /\ out[o] = << >>
    /\ (last[o].op = "start" /\ last[o].failed)
         => /\ last[o].res = "NetworkError"
            /\ last[o].emitted = 0
            /\ sess[o] = "Open"

C6_Witness ==
  \E o, q \in Obj :
    /\ last[o].op = "ctor" /\ last[o].failed /\ life[o] = "none"
    /\ last[q].op = "start" /\ last[q].failed /\ sess[q] = "Open"

\* C7: the lifecycle only moves Unopened -> Open -> Closed, and once a
\* session is Closed no step emits a further Start or Entity State PDU.
C7_ClosedIsTerminal ==
  [][\A o \in Obj :
       /\ sess'[o] # sess[o]
            => << sess[o], sess'[o] >> \in { << "Unopened", "Open" >>,
                                             << "Open", "Closed" >> }
       /\ sess[o] = "Closed"
            => \A k \in (Len(out[o]) + 1)..Len(out'[o]) :
                 out'[o][k].kind \notin { "Start", "State" }]_vars

\* C8: constructing a session never fails because another session exists:
\* a constructor fails only when its own transport setup failed.
C8_SessionsIndependent ==
  \A o \in Obj :
    (last[o].op = "ctor" /\ last[o].res \notin { "ok", "running" })
      => last[o].failed

\* C9: a send_state_pdu in an Open session with an unrecognized entity type
\* fails with EncodingError, emits no PDU and leaves the session Open; one
\* with a recognized entity type (and a working transport) succeeds and
\* emits one Entity State PDU, also right after an EncodingError.
C9_EncodingErrorRecoverable ==
  \A o \in Obj :
    (build = "pybind" /\ last[o].op = "state" /\ last[o].pre = "Open")
      => /\ last[o].entity \notin KnownEntityTypes
              => /\ last[o].res = "EncodingError"
                 /\ last[o].emitted = 0
                 /\ sess[o] = "Open"
         /\ (last[o].entity \in KnownEntityTypes /\ ~last[o].failed)
              => /\ last[o].res = "ok"
                 /\ last[o].emitted = 1
                 /\ out[o][Len(out[o])].kind = "State"
                 /\ sess[o] = "Open"

C9_Witness ==
  \E o \in Obj :
    /\ build = "pybind" /\ prev[o] = "EncodingError"
    /\ last[o].op = "state" /\ last[o].res = "ok" /\ last[o].emitted = 1
    /\ Kinds(o) = << "Start", "State" >>

\* C10: whenever an object's delegate dis holds a reference, and whenever
\* its constructor body or a method can run, that object's interpreter
\* guard is held and the interpreter is alive.
C10_InterpreterOutlivesDelegate ==
  build = "pybind" =>
    \A o \in Obj :
      /\ dis[o] => (guard[o] /\ interp)
      /\ life[o] \in { "ctor", "live" } => (guard[o] /\ interp)

C10_Witness ==
  \E o \in Obj :
    /\ build = "pybind" /\ life[o] = "dtor"
    /\ ~dis[o] /\ guard[o] /\ interp
    /\ Len(out[o]) > 0

====
